---- MODULE Spec2Model ----
(***************************************************************************)
(* GWSamplegen: template selection (GWSamplegen/waveform_utils.py), the    *)
(* batched matched-filter engine and its memory-mapped output store        *)
(* (asyncSNR.py, SNR_series.py) and the noise injector (run_batch).        *)
(*                                                                         *)
(* Three state machines share the module:                                  *)
(*   SpecSelect  one call of choose_templates / choose_templates_new       *)
(*   SpecEngine  the job-array workers of asyncSNR.py on one store         *)
(*   SpecInject  the injection of one projected signal into a buffer       *)
(* Array indices are 0-based as in the Python source; TLA+ sequences are   *)
(* 1-based, so element i of an array a is a[i + 1].                        *)
(***************************************************************************)
EXTENDS Integers, Sequences, FiniteSets, TLC

VARIABLES
    \* ---- template selector (waveform_utils.py) ----
    bank,      \* template_bank_params: sequence of [cm, q], sorted by cm
    wf,        \* waveform_params, as [cm, q]
    tpw,       \* templates_per_waveform / n_templates
    width,     \* template_selection_width, in units of 1/WDen
    limit,     \* limit of choose_templates_new
    policy,    \* "window" (choose_templates) or "metric" (choose_templates_new)
    spc,       \* position inside the call
    best,      \* best_template (window policy)
    order,     \* mismatches after np.argsort (metric policy)
    x,         \* the index array being built / returned
    serr,      \* the exception raised by the call, "none" if none
    \* ---- engine and store (asyncSNR.py) ----
    ecfg,      \* run configuration shared by all jobs
    jpc,       \* job -> position in the script
    jn,        \* job -> n, start sample of the current super-batch
    ji,        \* job -> i, index of the batch being consumed
    jifo,      \* job -> index of the detector being filtered
    results,   \* job -> results of p.map: the batch starts, in order
    fp,        \* the store body: detector -> row -> value written
    fileShape, \* shape the file was created with, <<>> while it does not exist
    fpShape,   \* job -> shape of its np.memmap view
    header,    \* shape declared by the header, <<>> while not written
    headerWrites, \* number of header writes so far (history)
    jsaw,      \* job -> what os.path.exists returned to it
    wlog,      \* the store writes so far: [job, det, start, rows] (history)
    synthFailed, \* the waveform collaborator raised in some batch (history)
    \* ---- noise injector (run_batch, asyncSNR.py 226-270) ----
    icfg,      \* duration, sample_rate, offset (seconds) of the run,
               \* params["injection"][n+i], the detector ifos.index(ifo) being
               \* built and the number of detector rows of the noise array
    sigLen,    \* len(temp[ifo]): length of the projected signal
    ipc,       \* position inside the injection
    strain,    \* strains[ifo][i]: the buffer
    ierr,      \* the exception raised, "none" if none
    \* ---- Gaussian noise of run_batch (asyncSNR.py 230-236) ----
    seeds,     \* the noise_from_psd calls so far: [sample, det, seed] (history)
    \* ---- retained SNR window (asyncSNR.py 257-258, 320-324) ----
    window,    \* the index bounds met on the way of one sample to the store
    \* ---- generate_configs.py ----
    gcfg,      \* n_signal_samples, n_noise_samples, waveforms_per_file,
               \* templates_per_waveform, template_selection_width
    gpc,       \* position in the script
    gi,        \* i of the loop of line 484 / line 560
    generated_samples, \* line 532
    good_params,  \* list of the accepted signal samples
    gcur,      \* the sample whose templates are being chosen
    noise_p,   \* the noise samples built so far
    good_params_dict \* the record handed to np.save, <<>> before

selVars == <<bank, wf, tpw, width, limit, policy, spc, best, order, x, serr>>
engVars == <<ecfg, jpc, jn, ji, jifo, results, fp, fileShape, fpShape, header,
             headerWrites, jsaw, wlog, synthFailed>>
injVars == <<icfg, sigLen, ipc, strain, ierr>>
cfgVars == <<gcfg, gpc, gi, generated_samples, good_params, gcur, noise_p,
             good_params_dict>>
genVars == <<seeds, window, cfgVars>>
vars == <<selVars, engVars, injVars, genVars>>

(***************************************************************************)
(* Bounds of the model.                                                    *)
(***************************************************************************)
MaxBank == 3      \* templates in the catalog
MaxCm == 3        \* chirp masses 1..MaxCm
MaxN == 3         \* n_templates requested
MaxW == 2         \* widths 0..MaxW, in units of 1/WDen
MaxLimit == 3     \* limit of the metric policy
MaxSamples == 4   \* samples in params.npy
MaxJobs == 2      \* --totaljobs
MaxT == 2         \* templates per sample
MaxB == 2         \* samples_per_batch
MaxMp == 2        \* mp_batch
MaxDur == 3       \* duration of the analysis buffer, seconds
MaxRate == 3      \* sample_rate
MaxOff == 1       \* offset, seconds
MaxSig == 5       \* samples in the projected signal
MaxShift == 1     \* inter-detector delay, samples
MaxNoiseRows == 3 \* detector rows in the noise array
MaxTpw == 120     \* templates_per_waveform of the configuration file
MaxSeed == 1      \* seed of the configuration file
MaxOffSec == 5    \* offset, in seconds, at the full sizes of the script
MaxSignal == 1    \* n_signal_samples
MaxNoise == 1     \* n_noise_samples
MaxWpf == 2       \* waveforms_per_file
MaxCfgTpw == 1    \* templates_per_waveform of generate_configs

\* width is a multiple of 1/WDen (a unit of the model, not of the program)
WDen == 2
\* mass ratio m2/m1 in units of 1/QDen: q = 1 is 0.5, q = 2 is 1.0
QDen == 2
\* chirp mass in units of 1/CmDen solar masses.  The window and the metric
\* distance do not depend on the unit; errfunc does, through its weight 1000:
\* with this unit one step of chirp mass costs less than one step of mass
\* ratio and two steps cost more, so that the best match by errfunc is not
\* always the template nearest in chirp mass.
CmDen == 3000
QVals == {1, 2}

Min(a, b) == IF a <= b THEN a ELSE b
Max(a, b) == IF a >= b THEN a ELSE b
Abs(a) == IF a >= 0 THEN a ELSE -a

\* Python's int() of a/2: truncation towards zero
IntHalf(d) == IF d >= 0 THEN d \div 2 ELSE -((-d) \div 2)

\* A Python slice bound i on an array of length len, normalised to 0..len
PyBound(i, len) == IF i < 0 THEN Max(len + i, 0) ELSE Min(i, len)

\* range(a, b) / np.arange(a, b) as a sequence
Arange(a, b) == [k \in 1..Max(b - a, 0) |-> a + k - 1]

\* a[from:] and a[:to] of a sequence, Python semantics
SliceFrom(a, from) == LET s == PyBound(from, Len(a))
                      IN  [k \in 1..(Len(a) - s) |-> a[s + k]]
SliceTo(a, to) == [k \in 1..PyBound(to, Len(a)) |-> a[k]]

Range(s) == {s[k] : k \in DOMAIN s}
IsInjective(s) == \A a, b \in DOMAIN s : a # b => s[a] # s[b]

Templates == [cm : 1..MaxCm, q : QVals]

\* catalogs sorted ascending by chirp mass (load_pycbc_templates, line 132)
SortedByCm(b) == \A k \in 1..(Len(b) - 1) : b[k].cm <= b[k + 1].cm
Banks == UNION {{b \in [1..L -> Templates] : SortedByCm(b)} : L \in 1..MaxBank}

(***************************************************************************)
(* Template selector: GWSamplegen/waveform_utils.py                        *)
(***************************************************************************)

\* weight of the chirp-mass term of errfunc (line 244)
CmWeight == 1000

\* errfunc (line 244), times QDen*CmDen so that it stays an integer:
\* |m2/m1 - m2true/m1true| + 1000*|chirp_mass - chirp_mass_true|
errfunc(w, t) == CmDen * Abs(w.q - t.q) + CmWeight * QDen * Abs(w.cm - t.cm)

\* fast_point_distance (lines 180-184): sum of squared differences of the xi
\* coordinates; the two coordinates of a template are modelled by (cm, q)
fast_point_distance(b, w) ==
    [k \in 1..Len(b) |-> (b[k].cm - w.cm) * (b[k].cm - w.cm)
                         + (b[k].q - w.q) * (b[k].q - w.q)]

\* np.argsort's default kind is quicksort, which is not stable: the result is
\* some permutation of the indices along which the keys do not decrease
ArgsortOrders(keys) ==
    {p \in [1..Len(keys) -> 0..(Len(keys) - 1)] :
        /\ IsInjective(p)
        /\ \A k \in 1..(Len(keys) - 1) : keys[p[k] + 1] <= keys[p[k + 1] + 1]}

\* the values np.argsort(keys)[0] can take
ArgsortFirstWrong(keys) == {0}
ArgsortFirst(keys) ==
    {i \in 0..(Len(keys) - 1) : \A j \in 0..(Len(keys) - 1) : keys[i + 1] <= keys[j + 1]}

\* np.searchsorted(a, v), side 'left', of a sorted column: the number of
\* entries below v.  v is cm*(1 -/+ width/2) = cm*(2*WDen -/+ wd)/(2*WDen).
low_idx(b, w, wd) ==
    Cardinality({k \in 1..Len(b) : b[k].cm * 2 * WDen < w.cm * (2 * WDen - wd)})
high_idx(b, w, wd) ==
    Cardinality({k \in 1..Len(b) : b[k].cm * 2 * WDen < w.cm * (2 * WDen + wd)})

\* lines 303-306
sigma_low(bst, lo) == IntHalf(bst - lo)
sigma_high(bst, hi) == IntHalf(hi - bst)

\* 0.5 / pdf[slice].sum() (lines 314-315).  st.truncnorm.pdf is nan everywhere
\* when its scale is not positive and positive on the whole window otherwise;
\* the sum of an empty slice is 0.0 and 0.5/0.0 is inf.
Scale(sigma, cnt) == IF cnt = 0 THEN "inf" ELSE IF sigma > 0 THEN "finite" ELSE "nan"

\* np.random.choice(a, size, p, replace = False): the checks that raise
\* ValueError.  pValid: p holds no nan and sums to 1.
ChoiceRaises(a, size, pValid) ==
    \/ Len(a) = 0 /\ size # 0
    \/ ~pValid
    \/ size > Len(a)
    \/ size < 0
\* ... and the arrays it can return: size distinct entries, in any order
ChoiceResults(a, size) == {s \in [1..size -> Range(a)] : IsInjective(s)}

\* the three branches of lines 322-336; each yields [raises, outs]
LeftNanBranch(b, xs, n, d, scale2) ==
    IF Len(xs) < n
    THEN [raises |-> FALSE, outs |-> {Arange(Len(b) - n, Len(b) - 1)}]
    ELSE LET a == SliceFrom(xs, d)
             r == ChoiceRaises(a, n - 1, scale2 = "finite")
         IN  [raises |-> r, outs |-> IF r THEN {} ELSE ChoiceResults(a, n - 1)]

RightNanBranch(b, xs, n, d) ==
    LET a == SliceTo(xs, d)
        r == ChoiceRaises(a, n - 1, TRUE)
    IN  [raises |-> r, outs |-> IF r THEN {} ELSE ChoiceResults(a, n - 1)]

BothBranch(b, xs, n) ==
    IF Len(xs) < n
    THEN [raises |-> FALSE, outs |-> {Arange(Len(b) - n, Len(b) - 1)}]
    ELSE LET r == ChoiceRaises(xs, n - 1, TRUE)
         IN  [raises |-> r, outs |-> IF r THEN {} ELSE ChoiceResults(xs, n - 1)]

\* lines 293-336 of choose_templates
SampleWindow(b, w, n, wd, bst) ==
    LET lo == low_idx(b, w, wd)
        hi == high_idx(b, w, wd)
        xs == Arange(lo, hi)
        d == bst - lo
        scale1 == Scale(sigma_low(bst, lo), Len(SliceTo(xs, d)))
        scale2 == Scale(sigma_high(bst, hi), Len(SliceFrom(xs, d)))
    IN  IF scale1 \in {"inf", "nan"} THEN LeftNanBranch(b, xs, n, d, scale2)
        ELSE IF scale2 \in {"inf", "nan"} THEN RightNanBranch(b, xs, n, d)
        ELSE BothBranch(b, xs, n)

\* np.sort (line 339)
RECURSIVE InsertSorted(_, _)
InsertSorted(s, v) ==
    IF s = <<>> THEN <<v>>
    ELSE IF v <= Head(s) THEN <<v>> \o s
    ELSE <<Head(s)>> \o InsertSorted(Tail(s), v)
RECURSIVE Sort(_)
Sort(s) == IF s = <<>> THEN <<>> ELSE InsertSorted(Sort(Tail(s)), Head(s))

\* lines 339-340: x = np.insert(np.sort(x), 0, best_template)
SortInsertUnsorted(s, bst) == <<bst>> \o s
SortInsert(s, bst) == <<bst>> \o Sort(s)

\* lines 343-345: for i in range(1, len(x)-1): if x[i] >= x[i+1]: x[i+1] = x[i]+1
RECURSIVE UniqueFrom(_, _)
UniqueFrom(s, i) ==
    IF i >= Len(s) - 1 THEN s
    ELSE IF s[i + 1] >= s[i + 2]
         THEN UniqueFrom([s EXCEPT ![i + 2] = s[i + 1] + 1], i + 1)
         ELSE UniqueFrom(s, i + 1)
UniqueLoop(s) == UniqueFrom(s, 1)

\* lines 348-349: if x[-1] >= len(bank): x -= x[-1] - len(bank) - 1
ClampToBank(s, blen) ==
    IF s[Len(s)] >= blen
    THEN [k \in 1..Len(s) |-> s[k] - (s[Len(s)] - blen - 1)]
    ELSE s

\* a[from:to] with from >= 0 (line 232: mismatches[1:limit])
Slice(a, from, to) ==
    LET e == PyBound(to, Len(a))
        s == Min(from, Len(a))
    IN  [k \in 1..Max(e - s, 0) |-> a[s + k]]

\* mutants of SampleMetric: the candidates start at the best match itself
\* (mismatches[0:limit]); a limit beyond the catalog is refused; the limit is
\* ignored (mismatches[1:])
SampleMetricFromBest(m, n, lim) ==
    LET a == Slice(m, 0, lim)
        r == ChoiceRaises(a, n - 1, TRUE)
    IN  [raises |-> r,
         outs |-> IF r THEN {} ELSE {<<m[1]>> \o c : c \in ChoiceResults(a, n - 1)}]
SampleMetricStrict(m, n, lim) ==
    LET a == Slice(m, 1, lim)
        r == ChoiceRaises(a, n - 1, TRUE) \/ lim > Len(m)
    IN  [raises |-> r,
         outs |-> IF r THEN {} ELSE {<<m[1]>> \o c : c \in ChoiceResults(a, n - 1)}]

SampleMetricNoLimit(m, n, lim) ==
    LET a == Slice(m, 1, Len(m))
        r == ChoiceRaises(a, n - 1, TRUE)
    IN  [raises |-> r,
         outs |-> IF r THEN {} ELSE {<<m[1]>> \o c : c \in ChoiceResults(a, n - 1)}]

\* lines 230-234 of choose_templates_new
SampleMetric(m, n, lim) ==
    LET a == Slice(m, 1, lim)
        r == ChoiceRaises(a, n - 1, TRUE)
    IN  [raises |-> r,
         outs |-> IF r THEN {} ELSE {<<m[1]>> \o c : c \in ChoiceResults(a, n - 1)}]

SelIdle ==
    /\ bank = <<>> /\ wf = [cm |-> 0, q |-> 0] /\ tpw = 0 /\ width = 0 /\ limit = 0
    /\ policy = "none" /\ spc = "idle" /\ best = -1 /\ order = <<>> /\ x = <<>>
    /\ serr = "none"

SelInit ==
    /\ bank \in Banks
    \* both distances depend on the mass ratios only through |q - wf.q|, and
    \* QVals is symmetric, so the target's ratio is fixed without loss
    /\ wf \in [cm : 1..MaxCm, q : {1}]
    /\ tpw \in 1..MaxN
    /\ policy \in {"window", "metric"}
    /\ width \in IF policy = "window" THEN 0..MaxW ELSE {0}
    /\ limit \in IF policy = "metric" THEN 1..MaxLimit ELSE {0}
    /\ spc = "call" /\ best = -1 /\ order = <<>> /\ x = <<>> /\ serr = "none"

\* choose_templates, line 290
CT_BestTemplate ==
    /\ spc = "call" /\ policy = "window"
    /\ best' \in ArgsortFirst([k \in 1..Len(bank) |-> errfunc(wf, bank[k])])
    /\ spc' = "best"
    /\ UNCHANGED <<bank, wf, tpw, width, limit, policy, order, x, serr>>
    /\ UNCHANGED <<engVars, injVars, genVars>>

\* choose_templates, lines 293-340: the window, the draw, np.sort, np.insert
CT_Sample ==
    /\ spc = "best"
    /\ LET r == SampleWindow(bank, wf, tpw, width, best)
       IN  \/ /\ r.raises
              /\ spc' = "raised" /\ serr' = "ValueError" /\ x' = x
           \/ /\ ~r.raises
              /\ \E c \in r.outs : x' = SortInsert(c, best)
              /\ spc' = "inserted" /\ serr' = serr
    /\ UNCHANGED <<bank, wf, tpw, width, limit, policy, best, order>>
    /\ UNCHANGED <<engVars, injVars, genVars>>

\* choose_templates, lines 343-345
CT_Unique ==
    /\ spc = "inserted"
    /\ x' = UniqueLoop(x)
    /\ spc' = "unique"
    /\ UNCHANGED <<bank, wf, tpw, width, limit, policy, best, order, serr>>
    /\ UNCHANGED <<engVars, injVars, genVars>>

\* choose_templates, lines 348-351
CT_ClampReturn ==
    /\ spc = "unique"
    /\ x' = ClampToBank(x, Len(bank))
    /\ spc' = "done"
    /\ UNCHANGED <<bank, wf, tpw, width, limit, policy, best, order, serr>>
    /\ UNCHANGED <<engVars, injVars, genVars>>

\* choose_templates_new, lines 219-225
CTN_Argsort ==
    /\ spc = "call" /\ policy = "metric"
    /\ order' \in ArgsortOrders(fast_point_distance(bank, wf))
    /\ spc' = "sorted"
    /\ UNCHANGED <<bank, wf, tpw, width, limit, policy, best, x, serr>>
    /\ UNCHANGED <<engVars, injVars, genVars>>

\* choose_templates_new, lines 230-234
CTN_SampleReturn ==
    /\ spc = "sorted"
    /\ LET r == SampleMetric(order, tpw, limit)
       IN  \/ /\ r.raises
              /\ spc' = "raised" /\ serr' = "ValueError" /\ x' = x
           \/ /\ ~r.raises
              /\ x' \in r.outs
              /\ spc' = "done" /\ serr' = serr
    /\ UNCHANGED <<bank, wf, tpw, width, limit, policy, best, order>>
    /\ UNCHANGED <<engVars, injVars, genVars>>

SelNext ==
    \/ CT_BestTemplate \/ CT_Sample \/ CT_Unique \/ CT_ClampReturn
    \/ CTN_Argsort \/ CTN_SampleReturn


(***************************************************************************)
(* Engine and store: asyncSNR.py                                           *)
(***************************************************************************)

\* lines 41-54
sample_rate == 2048
seconds_before == 100
seconds_after == 400

\* line 50
ifos == <<"H1", "L1">>
NDet == Len(ifos)

Jobs == 0..(ecfg.jobs - 1)
\* line 118: samples_per_file = len(params['mass1']) // total_jobs
samples_per_file == ecfg.nsamp \div ecfg.jobs
n_templates == ecfg.T
samples_per_batch == ecfg.B
mp_batch == ecfg.mp

\* params['template_waveforms'] (line 104): the table of the run, sample -> slot -> id
template_ids(smp, slot) == (2 * smp + 3 * slot) % 7

\* the shapes handed to np.memmap: line 142 (mode 'w+') and line 146 (mode 'r+')
MemmapShapeCreate ==
    <<Len(ifos), n_templates * ecfg.nsamp, (seconds_before + seconds_after) * sample_rate>>
MemmapShapePerFile ==
    <<Len(ifos), n_templates * samples_per_file, (seconds_before + seconds_after) * sample_rate>>
MemmapShapeLoad ==
    <<Len(ifos), n_templates * ecfg.nsamp, (seconds_before + seconds_after) * sample_rate>>

\* a file just created by np.memmap(mode = 'w+'): every row zero
ZeroRow == <<>>
ZeroBody(shape) == [d \in 0..(shape[1] - 1) |-> [r \in 0..(shape[2] - 1) |-> ZeroRow]]

\* range(n, end, samples_per_batch) of lines 291-297
BatchStartsWholeJob(k, n) ==
    LET end == (k + 1) * samples_per_file
        cnt == IF end > n THEN (end - n + samples_per_batch - 1) \div samples_per_batch ELSE 0
    IN  [b \in 1..cnt |-> n + (b - 1) * samples_per_batch]
BatchStarts(k, n) ==
    LET end == Min(n + mp_batch * samples_per_batch, (k + 1) * samples_per_file)
        cnt == IF end > n THEN (end - n + samples_per_batch - 1) \div samples_per_batch ELSE 0
    IN  [b \in 1..cnt |-> n + (b - 1) * samples_per_batch]

\* run_batch(n), lines 212-221: template_ids[n:n+samples_per_batch] is cut at the
\* end of params, and the loop over n_templates*samples_per_batch rows then
\* raises IndexError
RunBatchRaises(j) == j + samples_per_batch > ecfg.nsamp

\* the rows of x for the batch starting at sample j (lines 212, 316, 320):
\* row r filters the strain of sample j + r // n_templates (tf.repeat, axis 0)
\* against template np.ravel(template_ids[j:j+B])[r]
StrainOfRow(j, r) == j + (r \div n_templates)
TemplateOfRowTiled(j, r) == template_ids(j + (r % samples_per_batch), r \div samples_per_batch)
TemplateOfRow(j, r) == template_ids(j + (r \div n_templates), r % n_templates)
FilterOutput(d, j, r) == <<ifos[d + 1], StrainOfRow(j, r), TemplateOfRow(j, r)>>

\* line 323: the row slice (i)*n_templates*samples_per_batch + n_templates*n :
\*                         (i+1)*n_templates*samples_per_batch + n_templates*n
RowStartNoT(i, n) == i * n_templates * samples_per_batch + n
RowStart(i, n) == i * n_templates * samples_per_batch + n_templates * n
RowStop(i, n) == (i + 1) * n_templates * samples_per_batch + n_templates * n

EngInit ==
    /\ ecfg \in [nsamp : 1..MaxSamples, jobs : 1..MaxJobs, T : 1..MaxT,
                 B : 1..MaxB, mp : 1..MaxMp]
    /\ jpc = [k \in Jobs |-> "exists"]
    /\ jn = [k \in Jobs |-> 0]
    /\ ji = [k \in Jobs |-> 0]
    /\ jifo = [k \in Jobs |-> 0]
    /\ jsaw = [k \in Jobs |-> FALSE]
    /\ results = [k \in Jobs |-> <<>>]
    /\ fpShape = [k \in Jobs |-> <<>>]
    /\ fp = <<>> /\ fileShape = <<>> /\ header = <<>> /\ headerWrites = 0
    /\ wlog = {} /\ synthFailed = FALSE

\* line 139: os.path.exists(project_dir + "/" + fname)
J_Exists ==
    \E k \in Jobs :
    /\ jpc[k] = "exists"
    /\ jsaw' = [jsaw EXCEPT ![k] = fileShape # <<>>]
    /\ jpc' = [jpc EXCEPT ![k] = "open"]
    /\ UNCHANGED <<ecfg, jn, ji, jifo, results, fp, fileShape, fpShape, header,
                   headerWrites, wlog, synthFailed>>
    /\ UNCHANGED <<selVars, injVars, genVars>>

\* lines 140-146: np.memmap, mode 'w+' (create or overwrite, zero-filled) when
\* the file was not seen, mode 'r+' otherwise; then the loop variable of line 286
J_Open ==
    \E k \in Jobs :
    /\ jpc[k] = "open"
    /\ IF jsaw[k]
       THEN /\ fpShape' = [fpShape EXCEPT ![k] = MemmapShapeLoad]
            /\ UNCHANGED <<fp, fileShape, header>>
       ELSE /\ fpShape' = [fpShape EXCEPT ![k] = MemmapShapeCreate]
            /\ fileShape' = MemmapShapeCreate
            /\ fp' = ZeroBody(MemmapShapeCreate)
            /\ header' = <<>>
    /\ jn' = [jn EXCEPT ![k] = k * samples_per_file]
    /\ jpc' = [jpc EXCEPT ![k] = "loop"]
    /\ UNCHANGED <<ecfg, ji, jifo, results, headerWrites, jsaw, wlog, synthFailed>>
    /\ UNCHANGED <<selVars, injVars, genVars>>

\* lines 286-297: one more super-batch; p.map(run_batch, ...) returns the
\* results in order, or raises what a batch raised
J_Map ==
    \E k \in Jobs :
    /\ jpc[k] = "loop"
    /\ jn[k] < (k + 1) * samples_per_file
    /\ LET starts == BatchStarts(k, jn[k])
       IN  IF \E b \in DOMAIN starts : RunBatchRaises(starts[b])
           THEN /\ jpc' = [jpc EXCEPT ![k] = "failed"]
                /\ UNCHANGED <<results, ji, jifo>>
           ELSE /\ results' = [results EXCEPT ![k] = starts]
                /\ ji' = [ji EXCEPT ![k] = 0]
                /\ jifo' = [jifo EXCEPT ![k] = 0]
                /\ jpc' = [jpc EXCEPT ![k] = "consume"]
    /\ UNCHANGED <<ecfg, jn, fp, fileShape, fpShape, header, headerWrites, jsaw,
                   wlog, synthFailed>>
    /\ UNCHANGED <<selVars, injVars, genVars>>

\* a pool that streams results: the first batch of the super-batch is filtered
\* and written before the failure of a later batch surfaces
J_SynthFailsAfterFirst ==
    \E k \in Jobs :
    /\ jpc[k] = "loop"
    /\ jn[k] < (k + 1) * samples_per_file
    /\ jpc' = [jpc EXCEPT ![k] = "failed"]
    /\ synthFailed' = TRUE
    /\ LET nrows == fpShape[k][2]
           a == PyBound(RowStart(0, jn[k]), nrows)
           b == PyBound(RowStop(0, jn[k]), nrows)
       IN  /\ fp' = [fp EXCEPT ![0] =
                      [r \in DOMAIN fp[0] |->
                         IF r >= a /\ r < b THEN FilterOutput(0, jn[k], r - a)
                         ELSE fp[0][r]]]
           /\ wlog' = wlog \cup {[job |-> k, det |-> 0, start |-> jn[k], rows |-> a..(b - 1)]}
    /\ UNCHANGED <<ecfg, jn, ji, jifo, results, fileShape, fpShape, header,
                   headerWrites, jsaw>>
    /\ UNCHANGED <<selVars, injVars, genVars>>

\* a failure handler that zeroes the rows of the job's own range
J_SynthFailsRollsBack ==
    \E k \in Jobs :
    /\ jpc[k] = "loop"
    /\ jn[k] < (k + 1) * samples_per_file
    /\ jpc' = [jpc EXCEPT ![k] = "failed"]
    /\ synthFailed' = TRUE
    /\ fp' = [d \in DOMAIN fp |-> [r \in DOMAIN fp[d] |->
                 IF r \in (k * samples_per_file * n_templates)
                          ..((k + 1) * samples_per_file * n_templates - 1)
                 THEN ZeroRow ELSE fp[d][r]]]
    /\ UNCHANGED <<ecfg, jn, ji, jifo, results, fileShape, fpShape, header,
                   headerWrites, jsaw, wlog>>
    /\ UNCHANGED <<selVars, injVars, genVars>>

\* lines 252, 297: get_td_waveform (the waveform collaborator) raises in one of
\* the batches of the super-batch; p.map re-raises and the script ends
J_SynthFails ==
    \E k \in Jobs :
    /\ jpc[k] = "loop"
    /\ jn[k] < (k + 1) * samples_per_file
    /\ jpc' = [jpc EXCEPT ![k] = "failed"]
    /\ synthFailed' = TRUE
    /\ UNCHANGED <<ecfg, jn, ji, jifo, results, fp, fileShape, fpShape, header,
                   headerWrites, jsaw, wlog>>
    /\ UNCHANGED <<selVars, injVars, genVars>>

\* lines 304-305: results[i] with i beyond the results of a short super-batch
J_IndexError ==
    \E k \in Jobs :
    /\ jpc[k] = "consume"
    /\ ji[k] < mp_batch
    /\ ji[k] >= Len(results[k])
    /\ jpc' = [jpc EXCEPT ![k] = "failed"]
    /\ UNCHANGED <<ecfg, jn, ji, jifo, results, fp, fileShape, fpShape, header,
                   headerWrites, jsaw, wlog, synthFailed>>
    /\ UNCHANGED <<selVars, injVars, genVars>>

\* lines 323-324: fp[d][a:b] = x for the batch starting at sample j: the rows
\* of the slice are overwritten.  (The mutant adds x to what is stored.)
StoreWriteAccumulate(body, d, a, b, j) ==
    [body EXCEPT ![d] =
        [r \in DOMAIN body[d] |->
           IF r >= a /\ r < b
           THEN IF body[d][r] = ZeroRow THEN FilterOutput(d, j, r - a)
                ELSE <<"sum", body[d][r], FilterOutput(d, j, r - a)>>
           ELSE body[d][r]]]
StoreWrite(body, d, a, b, j) ==
    [body EXCEPT ![d] =
        [r \in DOMAIN body[d] |->
           IF r >= a /\ r < b THEN FilterOutput(d, j, r - a) ELSE body[d][r]]]

\* lines 306-324: filter batch results[i] for detector ifos[jifo] and write the
\* rows; a slice cut short by the end of the array cannot take x (ValueError)
J_Write ==
    \E k \in Jobs :
    /\ jpc[k] = "consume"
    /\ ji[k] < mp_batch
    /\ ji[k] < Len(results[k])
    /\ LET d == jifo[k]
           j == results[k][ji[k] + 1]
           nrows == fpShape[k][2]
           a == PyBound(RowStart(ji[k], jn[k]), nrows)
           b == PyBound(RowStop(ji[k], jn[k]), nrows)
           cnt == n_templates * samples_per_batch
       IN  IF b - a # cnt
           THEN /\ jpc' = [jpc EXCEPT ![k] = "failed"]
                /\ UNCHANGED <<fp, wlog, ji, jifo>>
           ELSE /\ fp' = StoreWrite(fp, d, a, b, j)
                /\ wlog' = wlog \cup {[job |-> k, det |-> d, start |-> j, rows |-> a..(b - 1)]}
                /\ IF d + 1 < Len(ifos)
                   THEN jifo' = [jifo EXCEPT ![k] = d + 1] /\ ji' = ji
                   ELSE jifo' = [jifo EXCEPT ![k] = 0] /\ ji' = [ji EXCEPT ![k] = ji[k] + 1]
                /\ jpc' = jpc
    /\ UNCHANGED <<ecfg, jn, results, fileShape, fpShape, header, headerWrites, jsaw,
                   synthFailed>>
    /\ UNCHANGED <<selVars, injVars, genVars>>

\* a loop that advances by one batch more than a super-batch
J_NextSuperSkipsBatch ==
    \E k \in Jobs :
    /\ jpc[k] = "consume"
    /\ ji[k] >= mp_batch
    /\ jn' = [jn EXCEPT ![k] = jn[k] + samples_per_batch * (mp_batch + 1)]
    /\ results' = [results EXCEPT ![k] = <<>>]
    /\ jpc' = [jpc EXCEPT ![k] = "loop"]
    /\ UNCHANGED <<ecfg, ji, jifo, fp, fileShape, fpShape, header, headerWrites, jsaw,
                   wlog, synthFailed>>
    /\ UNCHANGED <<selVars, injVars, genVars>>

\* line 304 exhausted, line 286: n += samples_per_batch*mp_batch
J_NextSuper ==
    \E k \in Jobs :
    /\ jpc[k] = "consume"
    /\ ji[k] >= mp_batch
    /\ jn' = [jn EXCEPT ![k] = jn[k] + samples_per_batch * mp_batch]
    /\ results' = [results EXCEPT ![k] = <<>>]
    /\ jpc' = [jpc EXCEPT ![k] = "loop"]
    /\ UNCHANGED <<ecfg, ji, jifo, fp, fileShape, fpShape, header, headerWrites, jsaw,
                   wlog, synthFailed>>
    /\ UNCHANGED <<selVars, injVars, genVars>>

\* lines 334-345: the loop is over; line 342 divides by
\* samples_per_file*total_jobs (ZeroDivisionError); then fp.flush()
J_Flush ==
    \E k \in Jobs :
    /\ jpc[k] = "loop"
    /\ jn[k] >= (k + 1) * samples_per_file
    /\ jpc' = [jpc EXCEPT ![k] =
                 IF samples_per_file * ecfg.jobs = 0 THEN "failed" ELSE "header"]
    /\ UNCHANGED <<ecfg, jn, ji, jifo, results, fp, fileShape, fpShape, header,
                   headerWrites, jsaw, wlog, synthFailed>>
    /\ UNCHANGED <<selVars, injVars, genVars>>

\* a header rewritten at the end of every super-batch, inside the loop
J_HeaderInLoop ==
    \E k \in Jobs :
    /\ jpc[k] = "consume"
    /\ ji[k] >= mp_batch
    /\ results[k] # <<>>
    /\ header' = fpShape[k]
    /\ headerWrites' = headerWrites + 1
    /\ results' = [results EXCEPT ![k] = <<>>]
    /\ UNCHANGED <<ecfg, jpc, jn, ji, jifo, fp, fileShape, fpShape, jsaw, wlog,
                   synthFailed>>
    /\ UNCHANGED <<selVars, injVars, genVars>>

\* lines 349-351: header_data_from_array_1_0(fp), write_array_header_1_0
J_Header ==
    \E k \in Jobs :
    /\ jpc[k] = "header"
    /\ header' = fpShape[k]
    /\ headerWrites' = headerWrites + 1
    /\ jpc' = [jpc EXCEPT ![k] = "done"]
    /\ UNCHANGED <<ecfg, jn, ji, jifo, results, fp, fileShape, fpShape, jsaw, wlog,
                   synthFailed>>
    /\ UNCHANGED <<selVars, injVars, genVars>>


(***************************************************************************)
(* Noise injector: run_batch, asyncSNR.py lines 226-270 (the same placement *)
(* is SNR_series.py lines 188-212).  The buffer is modelled sample by       *)
(* sample, so duration and sample_rate are drawn small here.                *)
(***************************************************************************)

\* duration*sample_rate, the length of strains[ifo][i] (line 228)
BufLen == icfg.duration * icfg.sample_rate
\* duration*sample_rate//2
HalfBuf == BufLen \div 2
\* line 76: offset = np.min((offset*sample_rate, duration//2))
offsetUncapped == icfg.offset * icfg.sample_rate
offset == Min(icfg.offset * icfg.sample_rate, icfg.duration \div 2)

\* sample t (0-based) of the projected signal temp[ifo]; never 0
SignalSample(t) == t + 1
\* what a buffer cell holds: the signal sample placed there (0: none) and
\* whether the noise has been added
Cell(sg, noise) == [sig |-> sg, noise |-> noise]

\* line 257
w_len == Min(sigLen, HalfBuf)
\* the slice of line 258, as numpy cuts it
PlaceStart == PyBound(HalfBuf - w_len + offset, BufLen)
PlaceStop == PyBound(HalfBuf + offset, BufLen)
PlaceLen == Max(PlaceStop - PlaceStart, 0)

\* assigning an array of length n to a slice of length m: numpy broadcasts a
\* length-1 array and otherwise needs equal lengths (ValueError)
AssignRaises(m, n) == n # m /\ n # 1

\* round(delta_t_h1*sample_rate) of lines 259-264: the delay of detector d
\* from ifos[0], which is 0 for ifos[0] itself
DelayShifts(d) == IF d = 0 THEN {0} ELSE (-MaxShift)..MaxShift

\* noise[ifos.index(ifo)] (lines 266, 270): the noise array is indexed by the
\* detector's position in ifos; IndexError when it has no such row
NoiseIndexRaises(d, rows) == d >= rows

\* np.roll(a, shift)
Roll(a, shift) == [t \in DOMAIN a |-> a[(t - shift) % Cardinality(DOMAIN a)]]

InjInit ==
    /\ icfg \in [duration : 1..MaxDur, sample_rate : 1..MaxRate, offset : 0..MaxOff,
                 injection : BOOLEAN, det : 0..(NDet - 1), noiseRows : 1..MaxNoiseRows]
    /\ sigLen \in 0..MaxSig
    /\ ipc = "start"
    /\ strain = [t \in 0..(BufLen - 1) |-> Cell(0, FALSE)]
    /\ ierr = "none"

\* lines 257-258: strains[ifo][i, half - w_len + offset : half + offset] = temp[ifo]
I_Place ==
    /\ ipc = "start" /\ icfg.injection
    /\ IF AssignRaises(PlaceLen, sigLen)
       THEN ipc' = "raised" /\ ierr' = "ValueError" /\ strain' = strain
       ELSE /\ strain' = [t \in DOMAIN strain |->
                            IF t >= PlaceStart /\ t < PlaceStop
                            THEN Cell(SignalSample(IF sigLen = 1 THEN 0 ELSE t - PlaceStart),
                                      FALSE)
                            ELSE strain[t]]
            /\ ipc' = "placed" /\ ierr' = ierr
    /\ UNCHANGED <<icfg, sigLen>>
    /\ UNCHANGED <<selVars, engVars, genVars>>

\* lines 259-264: np.roll by round(delta_t_h1*sample_rate), the delay given by
\* the detector-geometry collaborator
I_Roll ==
    /\ ipc = "placed"
    /\ \E shift \in DelayShifts(icfg.det) :
          strain' = Roll(strain, shift)
    /\ ipc' = "rolled"
    /\ UNCHANGED <<icfg, sigLen, ierr>>
    /\ UNCHANGED <<selVars, engVars, genVars>>

\* line 266: strains[ifo][i] += noise[ifo]
I_AddNoise ==
    /\ ipc = "rolled"
    /\ IF NoiseIndexRaises(icfg.det, icfg.noiseRows)
       THEN ipc' = "raised" /\ ierr' = "IndexError" /\ strain' = strain
       ELSE /\ strain' = [t \in DOMAIN strain |-> Cell(strain[t].sig, TRUE)]
            /\ ipc' = "done" /\ ierr' = ierr
    /\ UNCHANGED <<icfg, sigLen>>
    /\ UNCHANGED <<selVars, engVars, genVars>>

\* line 270: the whole row is replaced by the detector's noise
NoiseRowSkipped(a) == a
NoiseRow(a) == [t \in DOMAIN a |-> Cell(0, TRUE)]

\* lines 267-270: no injection, strains[ifo][i] = noise[ifo]
I_NoiseOnly ==
    /\ ipc = "start" /\ ~icfg.injection
    /\ IF NoiseIndexRaises(icfg.det, icfg.noiseRows)
       THEN ipc' = "raised" /\ ierr' = "IndexError" /\ strain' = strain
       ELSE strain' = NoiseRow(strain) /\ ipc' = "done" /\ ierr' = ierr
    /\ UNCHANGED <<icfg, sigLen>>
    /\ UNCHANGED <<selVars, engVars, genVars>>


(***************************************************************************)
(* Specifications                                                          *)
(***************************************************************************)
EngIdle ==
    /\ ecfg = [nsamp |-> 0] /\ jpc = <<>> /\ jn = <<>> /\ ji = <<>> /\ jifo = <<>>
    /\ results = <<>> /\ fp = <<>> /\ fileShape = <<>> /\ fpShape = <<>>
    /\ header = <<>> /\ headerWrites = 0 /\ jsaw = <<>> /\ wlog = {}
    /\ synthFailed = FALSE

InjIdle ==
    /\ icfg = [duration |-> 0] /\ sigLen = 0 /\ ipc = "idle" /\ strain = <<>>
    /\ ierr = "none"

CfgIdle ==
    /\ gcfg = <<>> /\ gpc = "idle" /\ gi = 0 /\ generated_samples = 0
    /\ good_params = <<>> /\ gcur = <<>> /\ noise_p = <<>> /\ good_params_dict = <<>>
GenIdle == seeds = {} /\ window = <<>> /\ CfgIdle

SelectInit == SelInit /\ EngIdle /\ InjIdle /\ GenIdle
SpecSelect == SelectInit /\ [][SelNext]_vars

EngineInit == EngInit /\ SelIdle /\ InjIdle /\ GenIdle
EngineNext ==
    \/ J_Exists \/ J_Open \/ J_Map \/ J_SynthFails \/ J_IndexError
    \/ J_Write \/ J_NextSuper \/ J_Flush \/ J_Header
SpecEngine == EngineInit /\ [][EngineNext]_vars

(***************************************************************************)
(* Batch sizing: asyncSNR.py lines 68-96 and the loop header of line 286.   *)
(* The engine above takes samples_per_batch and mp_batch as small inputs;   *)
(* here they are computed as the script computes them.                      *)
(***************************************************************************)
\* the numbers of line 96, and lines 68 and 73
FilterCeiling == 100
BatchCap == 50
DefaultBatch == 10
DefaultMpBatch == 10

\* line 96: min(100//(config['templates_per_waveform']), 50)
BatchSizeCeil(t) == Min((FilterCeiling + t - 1) \div t, BatchCap)
BatchSizeFor(t) == Min(FilterCeiling \div t, BatchCap)

\* range(start, stop, step) raises ValueError when step is 0
RangeRaises(step) == step = 0

SizingInit ==
    /\ ecfg \in [T : 1..MaxTpw, B : {DefaultBatch}, mp : {DefaultMpBatch}]
    /\ jpc = <<"config">>
    /\ jn = <<>> /\ ji = <<>> /\ jifo = <<>>
    /\ results = <<>> /\ fp = <<>> /\ fileShape = <<>> /\ fpShape = <<>>
    /\ header = <<>> /\ headerWrites = 0 /\ jsaw = <<>> /\ wlog = {}
    /\ synthFailed = FALSE

\* line 96
Z_BatchSize ==
    /\ jpc = <<"config">>
    /\ ecfg' = [ecfg EXCEPT !.B = BatchSizeFor(ecfg.T)]
    /\ jpc' = <<"sized">>
    /\ UNCHANGED <<jn, ji, jifo, results, fp, fileShape, fpShape, header,
                   headerWrites, jsaw, wlog, synthFailed>>
    /\ UNCHANGED <<selVars, injVars, genVars>>

\* line 286: range(..., ..., samples_per_batch*mp_batch)
Z_LoopRange ==
    /\ jpc = <<"sized">>
    /\ jpc' = IF RangeRaises(samples_per_batch * mp_batch)
              THEN <<"failed">> ELSE <<"loop">>
    /\ UNCHANGED <<ecfg, jn, ji, jifo, results, fp, fileShape, fpShape, header,
                   headerWrites, jsaw, wlog, synthFailed>>
    /\ UNCHANGED <<selVars, injVars, genVars>>

SizeInit == SizingInit /\ SelIdle /\ InjIdle /\ GenIdle
SizeNext == Z_BatchSize \/ Z_LoopRange
SpecSize == SizeInit /\ [][SizeNext]_vars

(***************************************************************************)
(* Gaussian noise seeding: run_batch, asyncSNR.py lines 230-236, under the  *)
(* batch loop of lines 286-297.  One step per noise_from_psd call.          *)
(***************************************************************************)
\* line 236: seed=seed+n+i*len(ifos)+j
GaussianSeed(seed, n, i, j) == seed + n + i * Len(ifos) + j

SeedInit ==
    /\ ecfg \in [nsamp : 1..MaxSamples, jobs : 1..MaxJobs, T : {1},
                 B : 1..MaxB, mp : 1..MaxMp, seed : 0..MaxSeed]
    /\ jpc = [k \in Jobs |-> "noise"]
    /\ jn = [k \in Jobs |-> k * samples_per_file]
    /\ ji = [k \in Jobs |-> 0]
    /\ jifo = [k \in Jobs |-> 0]
    /\ results = <<>> /\ fp = <<>> /\ fileShape = <<>> /\ fpShape = <<>>
    /\ header = <<>> /\ headerWrites = 0 /\ jsaw = <<>> /\ wlog = {}
    /\ synthFailed = FALSE
    /\ seeds = {} /\ window = <<>> /\ CfgIdle

\* lines 232-236: noise[j] = noise_from_psd(..., seed=seed+n+i*len(ifos)+j) for
\* sample i of the batch at n and detector j; a batch cut short by the end of
\* the parameters raises at line 219, before any noise is drawn
G_NoiseFromPsd ==
    \E k \in Jobs :
    /\ jpc[k] = "noise"
    /\ jn[k] < (k + 1) * samples_per_file
    /\ ji[k] < samples_per_batch
    /\ IF RunBatchRaises(jn[k])
       THEN /\ jpc' = [jpc EXCEPT ![k] = "failed"]
            /\ UNCHANGED <<seeds, ji, jifo>>
       ELSE /\ seeds' = seeds \cup
                  {[sample |-> jn[k] + ji[k], det |-> jifo[k],
                    seed |-> GaussianSeed(ecfg.seed, jn[k], ji[k], jifo[k])]}
            /\ IF jifo[k] + 1 < Len(ifos)
               THEN jifo' = [jifo EXCEPT ![k] = jifo[k] + 1] /\ ji' = ji
               ELSE jifo' = [jifo EXCEPT ![k] = 0] /\ ji' = [ji EXCEPT ![k] = ji[k] + 1]
            /\ jpc' = jpc
    /\ UNCHANGED <<ecfg, jn, results, fp, fileShape, fpShape, header, headerWrites,
                   jsaw, wlog, synthFailed, window>>
    /\ UNCHANGED <<selVars, injVars, cfgVars>>

\* lines 286, 297: the next batch start, n + samples_per_batch
G_NextBatch ==
    \E k \in Jobs :
    /\ jpc[k] = "noise"
    /\ jn[k] < (k + 1) * samples_per_file
    /\ ji[k] >= samples_per_batch
    /\ jn' = [jn EXCEPT ![k] = jn[k] + samples_per_batch]
    /\ ji' = [ji EXCEPT ![k] = 0]
    /\ UNCHANGED <<ecfg, jpc, jifo, results, fp, fileShape, fpShape, header,
                   headerWrites, jsaw, wlog, synthFailed>>
    /\ UNCHANGED <<selVars, injVars, genVars>>

\* line 286: the loop is over
G_Done ==
    \E k \in Jobs :
    /\ jpc[k] = "noise"
    /\ jn[k] >= (k + 1) * samples_per_file
    /\ jpc' = [jpc EXCEPT ![k] = "done"]
    /\ UNCHANGED <<ecfg, jn, ji, jifo, results, fp, fileShape, fpShape, header,
                   headerWrites, jsaw, wlog, synthFailed>>
    /\ UNCHANGED <<selVars, injVars, genVars>>

SeedingInit == SeedInit /\ SelIdle /\ InjIdle
SeedingNext == G_NoiseFromPsd \/ G_NextBatch \/ G_Done
SpecSeed == SeedingInit /\ [][SeedingNext]_vars

(***************************************************************************)
(* The retained SNR window: one injected sample of one detector from its    *)
(* placement (asyncSNR.py 257-258) through the matched filter (320) to the  *)
(* slice kept in the store (323-324), at the sizes of the script: only the  *)
(* index bounds are followed, not the samples.                              *)
(***************************************************************************)
\* line 41
duration == 1024
\* line 112: N = int(duration/delta_t)
NHalved == (duration * sample_rate) \div 2
N == duration * sample_rate
\* line 320: array_matched_filter(strain, t_templates, psd, N, ...) returns SNR
\* series of N samples
SnrLen == N

WindowInit ==
    /\ icfg \in [duration : {duration}, sample_rate : {sample_rate},
                 offset : 0..MaxOffSec, injection : {TRUE}, det : 0..(NDet - 1),
                 noiseRows : {NDet}]
    /\ sigLen \in 0..MaxSig
    /\ ipc = "start"
    /\ strain = <<>>
    /\ ierr = "none"
    /\ window = [sigStart |-> 0, sigEnd |-> 0, xlen |-> 0, start |-> 0, stop |-> 0]
    /\ ecfg = [nsamp |-> 1, jobs |-> 1, T |-> 1, B |-> 1, mp |-> 1]
    /\ jpc = <<>> /\ jn = <<>> /\ ji = <<>> /\ jifo = <<>>
    /\ results = <<>> /\ fp = <<>> /\ fileShape = <<>> /\ fpShape = <<>>
    /\ header = <<>> /\ headerWrites = 0 /\ jsaw = <<>> /\ wlog = {}
    /\ synthFailed = FALSE
    /\ seeds = {} /\ CfgIdle

\* lines 257-258: the slice the signal is assigned to
W_Place ==
    /\ ipc = "start"
    /\ IF AssignRaises(PlaceLen, sigLen)
       THEN ipc' = "raised" /\ ierr' = "ValueError" /\ window' = window
       ELSE /\ window' = [window EXCEPT !.sigStart = PlaceStart, !.sigEnd = PlaceStop]
            /\ ipc' = "placed" /\ ierr' = ierr
    /\ UNCHANGED <<icfg, sigLen, strain, seeds>>
    /\ UNCHANGED <<selVars, engVars, cfgVars>>

\* line 320: x = array_matched_filter(...)
W_Filter ==
    /\ ipc = "placed"
    /\ window' = [window EXCEPT !.xlen = SnrLen]
    /\ ipc' = "filtered"
    /\ UNCHANGED <<icfg, sigLen, strain, ierr, seeds>>
    /\ UNCHANGED <<selVars, engVars, cfgVars>>

\* line 324: x[:, len(x[0])//2-seconds_before*sample_rate+offset :
\*                len(x[0])//2+seconds_after*sample_rate+offset], as numpy cuts it
W_Retain ==
    /\ ipc = "filtered"
    /\ window' = [window EXCEPT
          !.start = PyBound(window.xlen \div 2 - seconds_before * sample_rate + offset,
                            window.xlen),
          !.stop = PyBound(window.xlen \div 2 + seconds_after * sample_rate + offset,
                           window.xlen)]
    /\ ipc' = "retained"
    /\ UNCHANGED <<icfg, sigLen, strain, ierr, seeds>>
    /\ UNCHANGED <<selVars, engVars, cfgVars>>

\* line 323: the window is assigned to rows of the store, whose third
\* dimension is that of lines 141-142
W_Store ==
    /\ ipc = "retained"
    /\ IF Max(window.stop - window.start, 0) # MemmapShapeCreate[3]
       THEN ipc' = "raised" /\ ierr' = "ValueError"
       ELSE ipc' = "done" /\ ierr' = ierr
    /\ UNCHANGED <<icfg, sigLen, strain, seeds, window>>
    /\ UNCHANGED <<selVars, engVars, cfgVars>>

WindowingInit == WindowInit /\ SelIdle
WindowNext == W_Place \/ W_Filter \/ W_Retain \/ W_Store
SpecWindow == WindowingInit /\ [][WindowNext]_vars

(***************************************************************************)
(* generate_configs.py, lines 374-591: the signal sample loop, the noise    *)
(* samples and the params record.  The sample counts are drawn small; a     *)
(* sample is the part of its parameters the script reads: the masses, the   *)
(* detector SNRs, the injection flag and the templates.  choose_templates   *)
(* is the selector above, called with the window policy.                    *)
(***************************************************************************)
\* lines 101-102
network_snr_threshold == 0
detector_snr_threshold == 6

\* what prior.sample gives for the masses (the two priors are independent)
\* and sigma() for the detector SNRs: below, at and above the threshold
MassVals == {1, 2}
SnrVals == {5, 6, 7}

\* the catalog of line 276, in the units of the selector
CfgBank == [k \in 1..MaxBank |-> [cm |-> k, q |-> QDen]]

\* waveform_utils.py line 18: the chirp mass, symmetric and increasing in both
\* masses, in the units of the catalog
chirp_mass(m1, m2) == m1 + m2 - 1
\* waveform_utils.py line 244: mass2/mass1, in units of 1/QDen
MassRatio(m1, m2) == (QDen * m2) \div m1

\* line 488: np.sqrt(sum([snrs[i][detector]**2 ...])) > network_snr_threshold,
\* compared on the squares
NetworkSnrSq(h, l) == h * h + l * l
\* line 490
Suitable(h, l) ==
    /\ NetworkSnrSq(h, l) > network_snr_threshold * network_snr_threshold
    /\ h > detector_snr_threshold /\ l > detector_snr_threshold

\* lines 500-501 and 562-563: the swap that makes mass1 the larger
Mass1Of(m1, m2) == IF m2 > m1 THEN m2 ELSE m1
Mass2Of(m1, m2) == IF m2 > m1 THEN m1 ELSE m2

\* line 546: [...][:n_signal_samples]
SignalRowsAll(gp, n) == gp
SignalRows(gp, n) == SubSeq(gp, 1, Min(n, Len(gp)))

\* the call choose_templates(template_bank_params, params, templates_per_waveform,
\* template_selection_width) of lines 504-505 and 583
CallChooseTemplates(m1, m2) ==
    /\ wf' = [cm |-> chirp_mass(m1, m2), q |-> MassRatio(m1, m2)]
    /\ tpw' = gcfg.templates_per_waveform
    /\ width' = gcfg.template_selection_width
    /\ policy' = "window" /\ limit' = 0
    /\ spc' = "call" /\ best' = -1 /\ order' = <<>> /\ x' = <<>> /\ serr' = "none"
    /\ bank' = bank
\* the selector between two calls
SelectorReturns ==
    /\ wf' = [cm |-> 0, q |-> 0] /\ tpw' = 0 /\ width' = 0 /\ limit' = 0
    /\ policy' = "none" /\ spc' = "idle" /\ best' = -1 /\ order' = <<>> /\ x' = <<>>
    /\ serr' = "none" /\ bank' = bank

ConfigInit ==
    /\ gcfg \in [n_signal_samples : 0..MaxSignal, n_noise_samples : 0..MaxNoise,
                 waveforms_per_file : 1..MaxWpf,
                 templates_per_waveform : 1..MaxCfgTpw,
                 template_selection_width : 0..MaxW]
    /\ gpc = "while" /\ gi = 0 /\ generated_samples = 0
    /\ good_params = <<>> /\ gcur = <<>> /\ noise_p = <<>> /\ good_params_dict = <<>>
    /\ bank = CfgBank /\ wf = [cm |-> 0, q |-> 0] /\ tpw = 0 /\ width = 0 /\ limit = 0
    /\ policy = "none" /\ spc = "idle" /\ best = -1 /\ order = <<>> /\ x = <<>>
    /\ serr = "none"
    /\ seeds = {} /\ window = <<>>

\* line 437: while generated_samples < n_signal_samples; lines 441-477: the
\* next waveforms_per_file samples of the prior and their SNRs
P_While ==
    /\ gpc = "while"
    /\ IF generated_samples < gcfg.n_signal_samples
       THEN gpc' = "batch" /\ gi' = 0
       ELSE gpc' = "dict" /\ gi' = gi
    /\ UNCHANGED <<gcfg, generated_samples, good_params, gcur, noise_p,
                   good_params_dict, seeds, window>>
    /\ UNCHANGED <<selVars, engVars, injVars>>

\* lines 484-505: sample i of the batch; a suitable one gets its SNRs, its
\* masses in order and then its templates
P_Sample ==
    /\ gpc = "batch" /\ gi < gcfg.waveforms_per_file
    /\ \E m1 \in MassVals, m2 \in MassVals, h \in SnrVals, l \in SnrVals :
          IF Suitable(h, l)
          THEN /\ gcur' = [mass1 |-> Mass1Of(m1, m2), mass2 |-> Mass2Of(m1, m2),
                           injection |-> TRUE, H1_snr |-> h, L1_snr |-> l,
                           network_snr_sq |-> NetworkSnrSq(h, l),
                           template_waveforms |-> <<>>]
               /\ CallChooseTemplates(Mass1Of(m1, m2), Mass2Of(m1, m2))
               /\ gpc' = "signal_templates" /\ gi' = gi
          ELSE /\ gi' = gi + 1
               /\ UNCHANGED <<gcur, gpc, selVars>>
    /\ UNCHANGED <<gcfg, generated_samples, good_params, noise_p, good_params_dict,
                   seeds, window>>
    /\ UNCHANGED <<engVars, injVars>>

\* lines 504-507: choose_templates has returned; good_params.append(params[i])
P_Append ==
    /\ gpc = "signal_templates" /\ spc = "done"
    /\ good_params' = Append(good_params, [gcur EXCEPT !.template_waveforms = x])
    /\ gcur' = <<>>
    /\ gi' = gi + 1
    /\ gpc' = "batch"
    /\ SelectorReturns
    /\ UNCHANGED <<gcfg, generated_samples, noise_p, good_params_dict, seeds, window>>
    /\ UNCHANGED <<engVars, injVars>>

\* lines 504, 583: choose_templates has raised; the script ends
P_Raised ==
    /\ gpc \in {"signal_templates", "noise_templates"} /\ spc = "raised"
    /\ gpc' = "failed"
    /\ UNCHANGED <<gcfg, gi, generated_samples, good_params, gcur, noise_p,
                   good_params_dict, seeds, window>>
    /\ UNCHANGED <<selVars, engVars, injVars>>

\* line 532: generated_samples = len(good_params)
P_BatchEnd ==
    /\ gpc = "batch" /\ gi >= gcfg.waveforms_per_file
    /\ generated_samples' = Len(good_params)
    /\ gpc' = "while"
    /\ UNCHANGED <<gcfg, gi, good_params, gcur, noise_p, good_params_dict, seeds,
                   window>>
    /\ UNCHANGED <<selVars, engVars, injVars>>

\* line 546: good_params[0].keys() is an IndexError on an empty list; lines
\* 552-558: the noise samples are drawn
P_Dict ==
    /\ gpc = "dict"
    /\ IF good_params = <<>>
       THEN gpc' = "failed" /\ good_params_dict' = good_params_dict
       ELSE /\ good_params_dict' = SignalRows(good_params, gcfg.n_signal_samples)
            /\ gpc' = "noise"
    /\ gi' = 0
    /\ UNCHANGED <<gcfg, generated_samples, good_params, gcur, noise_p, seeds, window>>
    /\ UNCHANGED <<selVars, engVars, injVars>>

\* lines 560-583: noise sample i: the masses in order, then its templates
P_NoiseSample ==
    /\ gpc = "noise" /\ gcfg.n_noise_samples > 0 /\ gi < gcfg.n_noise_samples
    /\ \E m1 \in MassVals, m2 \in MassVals :
          /\ gcur' = [mass1 |-> Mass1Of(m1, m2), mass2 |-> Mass2Of(m1, m2),
                      injection |-> FALSE, H1_snr |-> 0, L1_snr |-> 0,
                      network_snr_sq |-> 0, template_waveforms |-> <<>>]
          /\ CallChooseTemplates(Mass1Of(m1, m2), Mass2Of(m1, m2))
    /\ gpc' = "noise_templates"
    /\ UNCHANGED <<gcfg, gi, generated_samples, good_params, noise_p,
                   good_params_dict, seeds, window>>
    /\ UNCHANGED <<engVars, injVars>>

\* line 583: templates.append(choose_templates(...))
P_NoiseAppend ==
    /\ gpc = "noise_templates" /\ spc = "done"
    /\ noise_p' = Append(noise_p, [gcur EXCEPT !.template_waveforms = x])
    /\ gcur' = <<>>
    /\ gi' = gi + 1
    /\ gpc' = "noise"
    /\ SelectorReturns
    /\ UNCHANGED <<gcfg, generated_samples, good_params, good_params_dict, seeds,
                   window>>
    /\ UNCHANGED <<engVars, injVars>>

\* lines 585-591: np.append of the noise samples under every key, np.save
P_Save ==
    /\ gpc = "noise"
    /\ gcfg.n_noise_samples = 0 \/ gi >= gcfg.n_noise_samples
    /\ good_params_dict' = good_params_dict \o noise_p
    /\ gpc' = "saved"
    /\ UNCHANGED <<gcfg, gi, generated_samples, good_params, gcur, noise_p, seeds,
                   window>>
    /\ UNCHANGED <<selVars, engVars, injVars>>

ConfigsInit == ConfigInit /\ EngIdle /\ InjIdle
ConfigsNext ==
    \/ P_While \/ P_Sample \/ P_Append \/ P_Raised \/ P_BatchEnd \/ P_Dict
    \/ P_NoiseSample \/ P_NoiseAppend \/ P_Save
    \/ CT_BestTemplate \/ CT_Sample \/ CT_Unique \/ CT_ClampReturn
SpecConfigs == ConfigsInit /\ [][ConfigsNext]_vars

InjectInit == InjInit /\ SelIdle /\ EngIdle /\ GenIdle
InjectNext == I_Place \/ I_Roll \/ I_AddNoise \/ I_NoiseOnly
SpecInject == InjectInit /\ [][InjectNext]_vars


(***************************************************************************)
(* Claims about the template selector                                      *)
(***************************************************************************)
Returned == spc = "done"
Finished == spc \in {"done", "raised"}
InBank(s) == \A k \in DOMAIN s : s[k] \in 0..(Len(bank) - 1)

\* the templates at minimal distance from the target under the policy's distance
Distances ==
    IF policy = "metric" THEN fast_point_distance(bank, wf)
    ELSE [k \in 1..Len(bank) |-> errfunc(wf, bank[k])]
Nearest == {i \in 0..(Len(bank) - 1) :
               \A j \in 0..(Len(bank) - 1) : Distances[i + 1] <= Distances[j + 1]}
LowestNearest == CHOOSE i \in Nearest : \A j \in Nearest : i <= j

\* C1: the indices returned by choose_templates (chirp-mass-window policy) are
\* pairwise distinct, the prepended best match included.
C1_WindowDistinct == (Returned /\ policy = "window") => IsInjective(x)

\* C2: when the window holds fewer candidates than requested and n_templates
\* does not exceed the catalog size, choose_templates returns (does not
\* raise) exactly n_templates indices, all inside the catalog.
C2_DegenerateWindow ==
    (/\ Finished /\ policy = "window"
     /\ high_idx(bank, wf, width) - low_idx(bank, wf, width) < tpw
     /\ tpw <= Len(bank))
    => (Returned /\ Len(x) = tpw /\ InBank(x))

\* C3: metric policy with n_templates <= limit <= catalog size: the call
\* returns exactly n_templates indices and no index twice.
C3_MetricCardinality ==
    (Finished /\ policy = "metric" /\ tpw <= limit /\ limit <= Len(bank))
    => (Returned /\ Len(x) = tpw /\ IsInjective(x) /\ InBank(x))
C3_Witness ==
    /\ Returned /\ policy = "metric" /\ tpw <= limit /\ limit <= Len(bank)
    /\ tpw >= 2 /\ tpw < limit

\* C4 as claimed: under either policy the first returned index is at minimal
\* distance from the target and, among ties, has the lowest catalog index.
C4_FirstIsLowestNearest == Returned => x[1] = LowestNearest
\* C4 as amended: the first returned index is at minimal distance from the
\* target over the whole catalog (which of several tied templates is returned
\* is not determined).
C4_FirstIsNearest == Returned => (x[1] \in Nearest /\ (policy = "window" => x[1] = best))
C4_Witness ==
    /\ Returned /\ Cardinality(Nearest) >= 2 /\ x[1] # LowestNearest
    /\ Len(x) >= 2

\* C5 as claimed: choose_templates_new with limit greater than the catalog
\* size fails and returns no index list.
C5_LimitBeyondCatalogFails ==
    (Finished /\ policy = "metric" /\ limit > Len(bank)) => spc = "raised"
\* C5 as amended: with limit greater than the catalog size the limit is
\* clamped to the catalog: the call raises exactly when n_templates exceeds
\* the catalog size and otherwise returns n_templates distinct indices.
C5_LimitBeyondCatalogClamped ==
    (Finished /\ policy = "metric" /\ limit > Len(bank))
    => /\ (spc = "raised") <=> (tpw > Len(bank))
       /\ Returned => (Len(x) = tpw /\ IsInjective(x) /\ InBank(x))
C5_Witness ==
    /\ Returned /\ policy = "metric" /\ limit > Len(bank) /\ tpw = Len(bank)
    /\ tpw >= 2


(***************************************************************************)
(* Claims about the engine and the store                                   *)
(***************************************************************************)
JobRows(k) == (k * samples_per_file * n_templates)
              ..((k + 1) * samples_per_file * n_templates - 1)
\* job k has no row write left to do
RowWritesOver(k) ==
    \/ jpc[k] \in {"header", "done", "failed"}
    \/ jpc[k] = "loop" /\ jn[k] >= (k + 1) * samples_per_file
AllRowsWritten ==
    /\ fp # <<>>
    /\ \A d \in DOMAIN fp : \A r \in DOMAIN fp[d] : fp[d][r] # ZeroRow

\* C6: with several jobs on one store, every row a job writes lies in its own
\* range [k*S*T, (k+1)*S*T), whatever the batch and super-batch sizes.
C6_WritesInOwnRange == \A e \in wlog : e.rows \subseteq JobRows(e.job)

\* C7: over all jobs of a store the header is written exactly once, and only
\* when every job has completed all of its row writes.
C7_HeaderOnceAfterAllWrites ==
    /\ headerWrites <= 1
    /\ headerWrites >= 1 => \A k \in Jobs : RowWritesOver(k)

\* C8: once the header is written it declares exactly the shape the store
\* was created with, (n_detectors, n_samples*n_templates,
\* (seconds_before+seconds_after)*sample_rate); in particular after every row
\* has been written and every job has finalized.
C8_HeaderDeclaresCreatedShape ==
    header # <<>> =>
        /\ header = fileShape
        /\ header = <<NDet, ecfg.nsamp * ecfg.T,
                      (seconds_before + seconds_after) * sample_rate>>
C8_Witness ==
    /\ ecfg.jobs >= 2 /\ ecfg.mp >= 2
    /\ \A k \in Jobs : jpc[k] = "done"
    /\ AllRowsWritten
    /\ header # <<>>

\* C9: row s*T + j of each detector holds the filter output of sample s
\* against template template_ids[s][j], and the write of the batch starting at
\* sample batch_start covers exactly rows [batch_start*T, (batch_start+B)*T).
C9_RowOrder ==
    /\ \A d \in DOMAIN fp : \A r \in DOMAIN fp[d] :
          fp[d][r] # ZeroRow =>
             fp[d][r] = <<ifos[d + 1], r \div n_templates,
                          template_ids(r \div n_templates, r % n_templates)>>
    /\ \A e \in wlog :
          e.rows = (e.start * n_templates)
                   ..((e.start + samples_per_batch) * n_templates - 1)
C9_Witness ==
    /\ ecfg.T >= 2 /\ ecfg.B >= 2
    /\ \E e \in wlog : e.start > 0 /\ e.det = 1
    /\ \E k \in Jobs : jpc[k] = "done"

(***************************************************************************)
(* Claims about the noise injector                                         *)
(***************************************************************************)
\* C10: a signal longer than half the buffer is injected without raising; the
\* trailing half-buffer-length samples of the signal are kept and they fill
\* the slice that ends at the centre index half + offset.
C10_LongSignalTruncated ==
    (ipc \in {"placed", "raised"} /\ sigLen > HalfBuf) =>
        /\ ipc = "placed"
        /\ \A t \in 0..(HalfBuf - 1) :
              strain[HalfBuf + offset - HalfBuf + t].sig
                 = SignalSample(sigLen - HalfBuf + t)


\* C11: for a sample whose injection flag is false the strain of a detector
\* that has a row in the noise array is that noise exactly: no signal sample
\* anywhere in the buffer, the noise present in every cell, no error, and no
\* placement or time-shift step taken.
C11_NoInjectionIsNoise ==
    (~icfg.injection /\ ipc # "start" /\ icfg.det < icfg.noiseRows) =>
        /\ ipc = "done" /\ ierr = "none"
        /\ \A t \in DOMAIN strain : strain[t] = Cell(0, TRUE)
C11_Witness ==
    /\ ~icfg.injection /\ ipc = "done" /\ BufLen >= 2 /\ sigLen >= 1
    /\ icfg.det = 1 /\ icfg.noiseRows = NDet
    /\ \A t \in DOMAIN strain : strain[t].noise


(***************************************************************************)
(* Further claims about the template selector                              *)
(***************************************************************************)
WinLow == low_idx(bank, wf, width)
WinHigh == high_idx(bank, wf, width)
\* the returned indices after the prepended best match
Rest == Tail(x)
StrictlyAscending(s) == \A k \in 1..(Len(s) - 1) : s[k] < s[k + 1]
InWindow(s) == \A k \in DOMAIN s : WinLow <= s[k] /\ s[k] < WinHigh

C13_DetectorMismatchFails ==
    (icfg.injection /\ ipc \in {"done", "raised"} /\ icfg.noiseRows # NDet
     /\ sigLen <= HalfBuf)
    => (ipc = "raised" /\ ierr = "ShapeMismatch")


(***************************************************************************)
(* Further claims about the engine and the store                           *)
(***************************************************************************)
WritesOf(log, k) == {e \in log : e.job = k}

\* C14: when a batch fails in a job the job stops.  The failing step changes
\* no row of the store (the rows the job wrote keep their values, the
\* unwritten ones stay as they were), and from then on the job takes no step:
\* it writes no further row and no header.
C14_FailedJobStops ==
    [][\A k \in Jobs :
          /\ (jpc[k] # "failed" /\ jpc'[k] = "failed") =>
                (fp' = fp /\ wlog' = wlog /\ header' = header)
          /\ jpc[k] = "failed" =>
                /\ jpc'[k] = "failed"
                /\ WritesOf(wlog', k) = WritesOf(wlog, k)
                /\ jn'[k] = jn[k] /\ ji'[k] = ji[k] /\ jifo'[k] = jifo[k]
                /\ (fp' # fp \/ header' # header) =>
                      \E j \in Jobs \ {k} :
                         <<jpc'[j], ji'[j], jifo'[j]>> # <<jpc[j], ji[j], jifo[j]>>]_vars
C14_Witness ==
    \E k \in Jobs :
       /\ jpc[k] = "failed" /\ synthFailed
       /\ WritesOf(wlog, k) # {}
       /\ \E r \in JobRows(k) : fp[0][r] = ZeroRow
       /\ \E r \in JobRows(k) : fp[0][r] # ZeroRow


RowsFrom(e) == CHOOSE a \in e.rows : \A r \in e.rows : a <= r
RowsTo(e) == (CHOOSE b \in e.rows : \A r \in e.rows : r <= b) + 1

\* C15: store writes are idempotent.  At every write of a batch to a detector's
\* row range, writing the same data to the same range once more would leave
\* the store as it is after the first write, and the write changes no row
\* outside the range (nor any row of another detector).
C15_WriteIdempotent ==
    [][\A e \in wlog' \ wlog :
          /\ StoreWrite(fp', e.det, RowsFrom(e), RowsTo(e), e.start) = fp'
          /\ \A d \in DOMAIN fp : \A r \in DOMAIN fp[d] :
                (d # e.det \/ r \notin e.rows) => fp'[d][r] = fp[d][r]]_vars
C15_Witness ==
    /\ \E e, f \in wlog : e # f /\ e.det = f.det /\ e.rows \cap f.rows # {}
    /\ \E r \in DOMAIN fp[0] : fp[0][r] = ZeroRow
    /\ ecfg.T >= 2


\* the jobs that have opened the store in create/truncate mode ('w+')
Creators == {k \in Jobs : jpc[k] \notin {"exists", "open"} /\ ~jsaw[k]}

\* C16: under every interleaving of the existence checks and the opens, at
\* most one job opens the store in create/truncate mode, and every row a job
\* has written is still in the store (no creation step discards it).
C16_SingleCreator ==
    /\ Cardinality(Creators) <= 1
    /\ \A e \in wlog : \A r \in e.rows : fp[e.det][r] # ZeroRow


\* C17: in a run where no waveform synthesis fails and every job has samples
\* to process, no job ends in an error, and a job that has ended has written
\* every row of its range in every detector before its header -- also when
\* samples_per_file is not a multiple of samples_per_batch*mp_batch.
C17_JobTerminatesNormally ==
    (~synthFailed /\ samples_per_file >= 1) =>
        \A k \in Jobs :
           /\ jpc[k] # "failed"
           /\ jpc[k] = "done" =>
                 \A d \in 0..(NDet - 1) : \A r \in JobRows(k) :
                    \E e \in WritesOf(wlog, k) : e.det = d /\ r \in e.rows


\* the runs of n consecutive catalog indices that hold index b
RunsAround(b, n) ==
    {a..(a + n - 1) : a \in {c \in 0..(Len(bank) - n) : c <= b /\ b <= c + n - 1}}

\* C18: when the window holds fewer than n_templates candidates (and the
\* catalog holds at least n_templates), what choose_templates returns is a
\* run of n_templates consecutive catalog indices around the best match,
\* inside the catalog.
C18_FallbackNearestRun ==
    (Returned /\ policy = "window" /\ WinHigh - WinLow < tpw /\ tpw <= Len(bank))
    => (Len(x) = tpw /\ Range(x) \in RunsAround(best, tpw))


\* the window, the position of the best match in it and the two scales, as
\* choose_templates computes them (lines 293-315)
WinX == Arange(WinLow, WinHigh)
WinDiff == best - WinLow
LeftScale == Scale(sigma_low(best, WinLow), Len(SliceTo(WinX, WinDiff)))
RightScale == Scale(sigma_high(best, WinHigh), Len(SliceFrom(WinX, WinDiff)))
LeftDegenerate == LeftScale # "finite"
RightDegenerate == RightScale # "finite"

\* C19: when the window holds at least n_templates candidates and the density
\* on a side of the best match is degenerate, the call does not raise and
\* the indices after the first come from the other side only: indices >= the
\* best match when the left side is degenerate, indices < the best match when
\* the right side is.
C19_DegenerateHalfFallback ==
    (/\ Finished /\ policy = "window" /\ WinHigh - WinLow >= tpw
     /\ LeftDegenerate \/ RightDegenerate)
    => /\ Returned
       /\ LeftDegenerate => \A k \in DOMAIN Rest : Rest[k] >= best
       /\ (~LeftDegenerate /\ RightDegenerate) => \A k \in DOMAIN Rest : Rest[k] < best



\* the samples of job k: range(index*samples_per_file, (index+1)*samples_per_file)
JobSamples(k) == (k * samples_per_file)..((k + 1) * samples_per_file - 1)

\* C20: once all jobs have finished, the job ranges have covered every sample
\* of [0, n) and every one of the n*T rows of each detector has been written
\* by some job.
C20_ShardingCoversAllSamples ==
    (\A k \in Jobs : jpc[k] = "done") =>
        /\ UNION {JobSamples(k) : k \in Jobs} = 0..(ecfg.nsamp - 1)
        /\ \A d \in 0..(NDet - 1) : \A r \in 0..(ecfg.nsamp * n_templates - 1) :
              \E e \in wlog : e.det = d /\ r \in e.rows


\* the distance rank (0 = best match) of catalog index i in the order computed
\* by np.argsort
RankOf(i) == (CHOOSE k \in DOMAIN order : order[k] = i) - 1

\* C21: metric policy: the first returned index has rank 0 and every later one
\* has a distance rank in 1..limit-1; no returned index has rank >= limit.
C21_MetricWithinLimit ==
    (Returned /\ policy = "metric") =>
        /\ RankOf(x[1]) = 0
        /\ \A k \in 2..Len(x) : RankOf(x[k]) >= 1 /\ RankOf(x[k]) < limit
C21_Witness ==
    /\ Returned /\ policy = "metric" /\ tpw >= 2 /\ limit < Len(bank)
    /\ \E k \in 2..Len(x) : RankOf(x[k]) = limit - 1


(***************************************************************************)
(* Claims about the batch sizing                                           *)
(***************************************************************************)
Sized == jpc \in {<<"sized">>, <<"loop">>, <<"failed">>}

\* C22 as claimed: for every templates_per_waveform T >= 1 the batch size
\* B = min(100 div T, 50) is at least 1 and B*T <= 100.
C22_BatchAtLeastOne ==
    Sized => (samples_per_batch >= 1 /\ samples_per_batch * n_templates <= FilterCeiling)
\* C22 as amended: B*T <= 100 for every T >= 1; B >= 1 exactly when T <= 100.
\* For T > 100 the batch size is 0 and the batch loop cannot start (range
\* with step 0).
C22_BatchWithinCeiling ==
    Sized =>
        /\ samples_per_batch * n_templates <= FilterCeiling
        /\ samples_per_batch <= BatchCap
        /\ (samples_per_batch >= 1) <=> (n_templates <= FilterCeiling)
        /\ n_templates > FilterCeiling => samples_per_batch = 0
        /\ (jpc = <<"failed">>) => n_templates > FilterCeiling
        /\ (jpc = <<"loop">>) => n_templates <= FilterCeiling
C22_Witness ==
    /\ jpc = <<"loop">> /\ n_templates = 3 /\ samples_per_batch = 33


\* the rows of the super-batch that starts at sample n (lines 323-324)
SuperRows(n) == (n_templates * n)..(n_templates * (n + samples_per_batch * mp_batch) - 1)
\* job k stopped in p.map (line 297) with the super-batch at jn[k] pending
FailedInMap(pcs, res, k) ==
    /\ pcs[k] = "failed" /\ res[k] = <<>>
    /\ jn[k] < (k + 1) * samples_per_file

\* C23: when the synthesis of one batch of a super-batch raises, the job has
\* written no row of any batch of that super-batch (nor of a later one),
\* and it starts no later super-batch: its loop variable and its results stay.
C23_SuperBatchAborted ==
    [][\A k \in Jobs :
          /\ (jpc[k] = "loop" /\ jpc'[k] = "failed" /\ jn[k] < (k + 1) * samples_per_file) =>
                /\ jn'[k] = jn[k] /\ results'[k] = <<>>
                /\ \A e \in WritesOf(wlog', k) :
                      e.start < jn[k] /\ e.rows \cap SuperRows(jn[k]) = {}
          /\ FailedInMap(jpc, results, k) =>
                /\ FailedInMap(jpc', results', k)
                /\ jn'[k] = jn[k]
                /\ WritesOf(wlog', k) = WritesOf(wlog, k)]_vars
C23_Witness ==
    \E k \in Jobs :
       /\ FailedInMap(jpc, results, k) /\ synthFailed
       /\ mp_batch >= 2 /\ jn[k] > k * samples_per_file
       /\ WritesOf(wlog, k) # {}
       /\ jn[k] + samples_per_batch * mp_batch <= ecfg.nsamp


\* job k is past its loop: flushed (line 345) or finalized (line 351)
Flushed(pcs, k) == pcs[k] \in {"header", "done"}

\* C24: within one job the flush comes only when the loop is over, with no
\* row write in the same step; the header is written only by a job that has
\* flushed; and a job that has flushed or written its header writes no row.
C24_HeaderAfterWritesAndFlush ==
    [][/\ \A k \in Jobs :
            /\ (~Flushed(jpc, k) /\ Flushed(jpc', k)) =>
                  /\ jpc[k] = "loop" /\ jpc'[k] = "header"
                  /\ jn[k] >= (k + 1) * samples_per_file
                  /\ wlog' = wlog /\ fp' = fp /\ headerWrites' = headerWrites
            /\ Flushed(jpc, k) =>
                  /\ Flushed(jpc', k)
                  /\ WritesOf(wlog', k) = WritesOf(wlog, k)
       /\ (headerWrites' # headerWrites \/ header' # header) =>
            \/ \E k \in Jobs : /\ jpc[k] = "header" /\ jpc'[k] = "done"
                                /\ headerWrites' = headerWrites + 1
                                /\ wlog' = wlog /\ fp' = fp
            \/ \E k \in Jobs : jpc[k] = "open" /\ header' = <<>>
                                /\ headerWrites' = headerWrites]_vars
C24_Witness ==
    \E k \in Jobs :
       /\ jpc[k] = "done" /\ headerWrites >= 1 /\ header # <<>>
       /\ Cardinality(WritesOf(wlog, k)) >= 4


\* the end of the last row range job k has written for detector d
LastStop(log, k, d) ==
    LET prev == {RowsTo(p) : p \in {q \in WritesOf(log, k) : q.det = d}}
    IN  CHOOSE b \in prev : \A c \in prev : c <= b

\* C25: within one run (job) batches are consumed and written one at a time
\* in increasing row order.  Every step writes at most one row range; it is
\* the range of the batch and detector the consume loop stands at; and, for
\* each detector, it starts at the end of the previous range the job wrote
\* for that detector.
C25_SequentialContiguousWrites ==
    [][/\ Cardinality(wlog' \ wlog) <= 1
       /\ \A k \in Jobs : \A e \in WritesOf(wlog', k) \ WritesOf(wlog, k) :
            /\ jpc[k] = "consume"
            /\ e.det = jifo[k]
            /\ e.start = jn[k] + ji[k] * samples_per_batch
            /\ e.start = results[k][ji[k] + 1]
            /\ Cardinality(e.rows) = n_templates * samples_per_batch
            /\ (\E p \in WritesOf(wlog, k) : p.det = e.det) =>
                  RowsFrom(e) = LastStop(wlog, k, e.det)]_vars
C25_Witness ==
    \E k \in Jobs :
       /\ mp_batch >= 2 /\ n_templates >= 2
       /\ jn[k] > k * samples_per_file
       /\ Cardinality({e \in WritesOf(wlog, k) : e.det = 1}) >= 3


(***************************************************************************)
(* Claims about the Gaussian noise seeds                                   *)
(***************************************************************************)
\* C26: the seeds of two different (sample, detector) pairs of a run differ.
C26_SeedsDistinct ==
    \A a \in seeds : \A b \in seeds :
       (a.sample # b.sample \/ a.det # b.det) => a.seed # b.seed


\* the placement step has been taken (lines 257-258), the time shift not yet
Placed == ipc = "placed" \/ (ipc = "raised" /\ ierr = "ValueError")

\* C27: an injected signal of length L <= half the buffer is placed without an
\* error and, before the time shift, occupies exactly the buffer indices
\* [half - L + offset, half + offset) in its own order; every other index is
\* zero and no noise has been added yet.  So its last sample is at index
\* half + offset - 1 whatever L is.
C27_SignalEndsAtCentre ==
    (Placed /\ sigLen <= HalfBuf) =>
        /\ ipc = "placed"
        /\ \A t \in DOMAIN strain :
              strain[t] = Cell(IF t >= HalfBuf - sigLen + offset /\ t < HalfBuf + offset
                               THEN SignalSample(t - (HalfBuf - sigLen + offset))
                               ELSE 0, FALSE)
        /\ sigLen >= 1 =>
              /\ HalfBuf + offset - 1 \in DOMAIN strain
              /\ strain[HalfBuf + offset - 1].sig = SignalSample(sigLen - 1)
C27_Witness ==
    /\ ipc = "placed" /\ sigLen >= 2 /\ sigLen < HalfBuf /\ offset >= 1
    /\ strain[HalfBuf + offset - 1].sig = SignalSample(sigLen - 1)
    /\ strain[HalfBuf + offset].sig = 0


\* C28: a job never holds more than mp_batch batch results, and it filters and
\* writes a batch of a super-batch only while it holds the results of every
\* batch of that super-batch: results are present only in the consume stage
\* (or after a failure in it) and are then the whole super-batch.
C28_BoundedResults ==
    \A k \in Jobs :
       /\ Len(results[k]) <= mp_batch
       /\ Len(results[k]) - ji[k] <= mp_batch
       /\ jpc[k] = "consume" => results[k] = BatchStarts(k, jn[k])
       /\ results[k] # <<>> => jpc[k] \in {"consume", "failed"}
       /\ \A e \in WritesOf(wlog, k) :
             e.start >= jn[k] =>
                /\ results[k] = BatchStarts(k, jn[k])
                /\ \E b \in DOMAIN results[k] : results[k][b] = e.start
C28_Witness ==
    \E k \in Jobs :
       /\ jpc[k] = "consume" /\ mp_batch >= 2 /\ Len(results[k]) = mp_batch
       /\ ji[k] = 1 /\ jn[k] > k * samples_per_file
       /\ \E e \in WritesOf(wlog, k) : e.start = jn[k]


C30_ParamsRecord ==
    gpc = "saved" =>
        /\ Len(good_params_dict) = gcfg.n_signal_samples + gcfg.n_noise_samples
        /\ \A k \in DOMAIN good_params_dict :
              LET r == good_params_dict[k]
              IN  /\ r.injection <=> (k <= gcfg.n_signal_samples)
                  /\ r.injection =>
                        /\ r.H1_snr > detector_snr_threshold
                        /\ r.L1_snr > detector_snr_threshold
                        /\ r.network_snr_sq > network_snr_threshold * network_snr_threshold
                  /\ r.mass1 >= r.mass2
                  /\ Len(r.template_waveforms) = gcfg.templates_per_waveform
C30_Witness ==
    /\ gpc = "saved"
    /\ gcfg.n_signal_samples >= 1 /\ gcfg.n_noise_samples >= 1
    /\ Len(good_params) > gcfg.n_signal_samples
    /\ \E k \in DOMAIN good_params_dict :
          /\ good_params_dict[k].mass1 > good_params_dict[k].mass2
          /\ Len(good_params_dict[k].template_waveforms) = gcfg.templates_per_waveform


====
